---------------------------- MODULE Spec2Model ----------------------------
(***************************************************************************)
(* Model of test7.py: a Streamlit dashboard that, on every script run,     *)
(* queries a STAC catalog, selects the least cloudy Sentinel-2 scene,      *)
(* loads two bands, computes a normalized-difference index and its         *)
(* statistics, optionally inserts them into raster_stats, and downloads a  *)
(* pre-rendered GeoTIFF from blob storage.                                 *)
(*                                                                         *)
(* Numbers: a float is the record [n, d] read as n/d.  d > 0 is a finite   *)
(* value in lowest terms, 0/0 is not-a-number, 1/0 and -1/0 are the        *)
(* infinities.  float32 rounding is not modelled: finite arithmetic is     *)
(* exact.                                                                  *)
(***************************************************************************)
EXTENDS Integers, Sequences, FiniteSets, TLC

(* ------------------------------ bounds --------------------------------- *)

\* Script runs in one behaviour.
MaxRuns == 3

\* Scenes the catalog can return for the fixed query.
MaxItems == 3

\* Raw digital numbers of a band asset are 0..MaxDN.
MaxDN == 1

\* Cells of a raster on the coarse (B11) grid; the fine grid has twice as many.
Cells == 1

(* ------------------------- program constants --------------------------- *)

\* st.selectbox("Wybierz wskaznik", [...]): the options, the first is the default.
IndexNames == <<"NDVI", "NDII", "NDBI", "NDWI">>

\* st.selectbox("Mapa kolorow", [...]).
CmapNames == <<"RdYlGn", "coolwarm", "RdGy", "CMRmap">>

\* band.astype("float32") / 10000.0
Scale == 10000

BandNames == {"B03", "B04", "B08", "B11"}

\* Python's None, as a raster-shaped record so that it compares with rasters.
None == [grid |-> "None", data |-> <<>>]

NoItem == [id |-> 0, cloud_cover |-> 0]

Range(s) == {s[i] : i \in 1..Len(s)}

(* ------------------------------ floats --------------------------------- *)

Abs(a) == IF a < 0 THEN -a ELSE a

Sign(a) == IF a < 0 THEN -1 ELSE IF a > 0 THEN 1 ELSE 0

RECURSIVE GCD(_, _)
GCD(a, b) == IF b = 0 THEN a ELSE GCD(b, a % b)

NaN == [n |-> 0, d |-> 0]

IsNaN(x) == x.d = 0 /\ x.n = 0

IsInf(x) == x.d = 0 /\ x.n # 0

\* The float n/d, d # 0, in lowest terms with a positive denominator.
Q(n, d) ==
    LET g == GCD(Abs(n), Abs(d))
    IN  [n |-> (Sign(d) * n) \div g, d |-> Abs(d) \div g]

FromInt(a) == [n |-> a, d |-> 1]

FNeg(x) == [n |-> -x.n, d |-> x.d]

FAdd(x, y) ==
    IF IsNaN(x) \/ IsNaN(y) THEN NaN
    ELSE IF IsInf(x) /\ IsInf(y) THEN (IF x.n = y.n THEN x ELSE NaN)
    ELSE IF IsInf(x) THEN x
    ELSE IF IsInf(y) THEN y
    ELSE Q(x.n * y.d + y.n * x.d, x.d * y.d)

FSub(x, y) == FAdd(x, FNeg(y))

FMul(x, y) ==
    IF IsNaN(x) \/ IsNaN(y) THEN NaN
    ELSE IF x.d = 0 \/ y.d = 0
         THEN [n |-> Sign(x.n) * Sign(y.n), d |-> 0]
    ELSE Q(x.n * y.n, x.d * y.d)

\* numpy's true division with a zero divisor guarded to 0 (np.where(den == 0, 0, ...)).
FDiv_zero_guarded(x, y) ==
    IF IsNaN(x) \/ IsNaN(y) THEN NaN
    ELSE IF IsInf(y) THEN (IF IsInf(x) THEN NaN ELSE FromInt(0))
    ELSE IF y.n = 0 THEN FromInt(0)
    ELSE IF IsInf(x) THEN [n |-> Sign(x.n) * Sign(y.n), d |-> 0]
    ELSE Q(x.n * y.d, x.d * y.n)

\* IEEE division as numpy performs it: 0/0 is NaN, x/0 is a signed infinity,
\* and neither raises.
FDiv(x, y) ==
    IF IsNaN(x) \/ IsNaN(y) THEN NaN
    ELSE IF IsInf(y) THEN (IF IsInf(x) THEN NaN ELSE FromInt(0))
    ELSE IF y.n = 0 THEN [n |-> Sign(x.n), d |-> 0]
    ELSE IF IsInf(x) THEN [n |-> Sign(x.n) * Sign(y.n), d |-> 0]
    ELSE Q(x.n * y.d, x.d * y.n)

\* x <= y on floats that are not NaN.
FLeq(x, y) ==
    IF IsInf(x) THEN (x.n < 0 \/ (IsInf(y) /\ y.n > 0))
    ELSE IF IsInf(y) THEN y.n > 0
    ELSE x.n * y.d <= y.n * x.d

\* The square root, kept symbolic: Sqrt(q) = Sqrt(r) iff q = r.
Sqrt(x) == IF IsNaN(x) THEN [sqrt |-> NaN] ELSE [sqrt |-> x]

(* ------------------------- remote imagery ------------------------------ *)

\* Sentinel-2 L2A: B11 is delivered on a grid half as fine as B03, B04, B08.
GridOf(band_name) == IF band_name = "B11" THEN "coarse" ELSE "fine"

GridSize(grid) == IF grid = "coarse" THEN Cells ELSE 2 * Cells

BandNo(band_name) ==
    CASE band_name = "B03" -> 1
      [] band_name = "B04" -> 2
      [] band_name = "B08" -> 3
      [] band_name = "B11" -> 4

\* eo:cloud_cover of the catalog's scenes; the first three are the values
\* [5.0, 2.0, 9.0], later scenes repeat earlier values.
CloudCover(id) == <<5, 2, 9>>[((id - 1) % 3) + 1]

Item(id) == [id |-> id, cloud_cover |-> CloudCover(id)]

AssetKeys == (1..MaxItems) \X BandNames

\* The raw digital numbers the scenes' assets hold (unsigned integers).
World ==
    [key \in AssetKeys |->
        [k \in 1..GridSize(GridOf(key[2])) |->
            ((key[1] - 1) * (BandNo(key[2]) + k) + (k - 1) * BandNo(key[2]))
                % (MaxDN + 1)]]

\* Every result the search can return: the scenes in any order, none twice.
SearchResults ==
    {s \in UNION {[1..n -> 1..MaxItems] : n \in 0..MaxItems} :
        \A i, j \in 1..Len(s) : i # j => s[i] # s[j]}

(* ------------------------------ load_band ------------------------------ *)

\* rioxarray.open_rasterio(href, overview_level=1).squeeze(): the asset's grid
\* and digital numbers.
open_rasterio(rem, item, band_name) ==
    [grid |-> GridOf(band_name),
     data |-> [k \in 1..Len(rem[<<item.id, band_name>>]) |->
                  FromInt(rem[<<item.id, band_name>>][k])]]

\* band.astype("float32") / 10000.0
rescale(band) ==
    [band EXCEPT !.data =
        [k \in 1..Len(band.data) |-> FDiv(band.data[k], FromInt(Scale))]]

\* reproject_match left out: the band keeps its own grid.
reproject_match_skipped(band, match) == band

\* band.rio.reproject_match(match): the band resampled (nearest neighbour) onto
\* match's grid; onto its own grid it is unchanged.
reproject_match(band, match) ==
    IF band.grid = match.grid THEN band
    ELSE [grid |-> match.grid,
          data |-> [k \in 1..Len(match.data) |->
                      band.data[(((2 * k - 1) * Len(band.data))
                                    \div (2 * Len(match.data))) + 1]]]

load_band(rem, item, band_name, match) ==
    LET band == rescale(open_rasterio(rem, item, band_name))
    IN  IF match # None THEN reproject_match(band, match) ELSE band

\* One load_band call as calc_index makes it and what it returned.
Load(rem, item, band_name, match) ==
    [band |-> band_name, matched |-> match # None,
     raster |-> load_band(rem, item, band_name, match)]

(* ------------------------------ calc_index ----------------------------- *)

\* xarray arithmetic joins its operands on their coordinates (inner join):
\* arrays on the same grid combine cell by cell, arrays on different grids
\* share no coordinate and give an empty array.
Empty == [grid |-> "empty", data |-> <<>>]

ElemSub(a, b) ==
    IF a.grid # b.grid THEN Empty
    ELSE [grid |-> a.grid, data |-> [k \in 1..Len(a.data) |-> FSub(a.data[k], b.data[k])]]

ElemAdd(a, b) ==
    IF a.grid # b.grid THEN Empty
    ELSE [grid |-> a.grid, data |-> [k \in 1..Len(a.data) |-> FAdd(a.data[k], b.data[k])]]

ElemDiv(a, b) ==
    IF a.grid # b.grid THEN Empty
    ELSE [grid |-> a.grid, data |-> [k \in 1..Len(a.data) |-> FDiv(a.data[k], b.data[k])]]

\* (a - b) / (a + b)
NormDiff(a, b) == ElemDiv(ElemSub(a, b), ElemAdd(a, b))

\* calc_index(index): the load_band calls in order, the returned array (None
\* when no branch matches: the function falls off its end), and the exception
\* the function's own code raises, which is none in every branch.
calc_index(index_name, item, rem) ==
    IF index_name = "NDVI" THEN
        LET red == Load(rem, item, "B04", None)
            nir == Load(rem, item, "B08", None)
        IN  [loads |-> <<red, nir>>, value |-> NormDiff(nir.raster, red.raster),
             raised |-> "none"]
    ELSE IF index_name = "NDII" THEN
        LET swir == Load(rem, item, "B11", None)
            nir  == Load(rem, item, "B08", swir.raster)
        IN  [loads |-> <<swir, nir>>, value |-> NormDiff(nir.raster, swir.raster),
             raised |-> "none"]
    ELSE IF index_name = "NDBI" THEN
        LET swir == Load(rem, item, "B11", None)
            nir  == Load(rem, item, "B08", swir.raster)
        IN  [loads |-> <<swir, nir>>, value |-> NormDiff(swir.raster, nir.raster),
             raised |-> "none"]
    ELSE IF index_name = "NDWI" THEN
        LET green == Load(rem, item, "B03", None)
            nir   == Load(rem, item, "B08", None)
        IN  [loads |-> <<green, nir>>, value |-> NormDiff(green.raster, nir.raster),
             raised |-> "none"]
    ELSE [loads |-> <<>>, value |-> None, raised |-> "none"]

(* ------------------------------ statistics ----------------------------- *)

\* index_data.where(~np.isnan(index_data)): cells failing the condition become NaN.
where_not_nan(a) ==
    [a EXCEPT !.data =
        [k \in 1..Len(a.data) |-> IF ~IsNaN(a.data[k]) THEN a.data[k] ELSE NaN]]

\* The non-NaN cells, in order.
RECURSIVE Valid(_)
Valid(s) ==
    IF s = <<>> THEN <<>>
    ELSE IF IsNaN(Head(s)) THEN Valid(Tail(s))
    ELSE <<Head(s)>> \o Valid(Tail(s))

RECURSIVE FoldMin(_)
FoldMin(s) ==
    IF Len(s) = 1 THEN s[1]
    ELSE LET m == FoldMin(Tail(s)) IN IF FLeq(s[1], m) THEN s[1] ELSE m

RECURSIVE FoldMax(_)
FoldMax(s) ==
    IF Len(s) = 1 THEN s[1]
    ELSE LET m == FoldMax(Tail(s)) IN IF FLeq(m, s[1]) THEN s[1] ELSE m

RECURSIVE FoldSum(_)
FoldSum(s) == IF s = <<>> THEN FromInt(0) ELSE FAdd(s[1], FoldSum(Tail(s)))

\* np.nanmin: the minimum of the non-NaN cells; NaN when there is none.
nanmin(a) == LET v == Valid(a.data) IN IF v = <<>> THEN NaN ELSE FoldMin(v)

nanmax(a) == LET v == Valid(a.data) IN IF v = <<>> THEN NaN ELSE FoldMax(v)

nanmean(a) ==
    LET v == Valid(a.data)
    IN  IF v = <<>> THEN NaN ELSE FDiv(FoldSum(v), FromInt(Len(v)))

\* np.nanstd (ddof = 0): the root of the mean squared deviation of the
\* non-NaN cells from their mean.
nanstd(a) ==
    LET v  == Valid(a.data)
        mu == nanmean(a)
        sq == [k \in 1..Len(v) |-> FMul(FSub(v[k], mu), FSub(v[k], mu))]
    IN  IF v = <<>> THEN Sqrt(NaN) ELSE Sqrt(FDiv(FoldSum(sq), FromInt(Len(v))))

\* The stats dict of the script (keys Min, Max, Srednia, Odchylenie standardowe).
compute_stats(index_data) ==
    LET clean_data == where_not_nan(index_data)
    IN  [Min |-> nanmin(clean_data), Max |-> nanmax(clean_data),
         Mean |-> nanmean(clean_data), Std |-> nanstd(clean_data)]

NoStats == [Min |-> NaN, Max |-> NaN, Mean |-> NaN, Std |-> Sqrt(NaN)]

\* f"{index}_{cmap}.tif"
blob_name(index_name, cmap_name) == index_name \o "_" \o cmap_name \o ".tif"

\* The objects the "geotiff" container holds: the pre-rendered images, of which
\* those of the last colormap were never uploaded.
Container ==
    {blob_name(IndexNames[i], CmapNames[c]) :
        i \in 1..Len(IndexNames), c \in 1..(Len(CmapNames) - 1)}

(* ------------------------------ selection ------------------------------ *)

\* items[0]: the first item of the result, whatever its cloud cover.
first_item(its) == its[1]

\* min(items, key=lambda item: item.properties["eo:cloud_cover"]) on a
\* non-empty result: the first item no later item undercuts.
RECURSIVE min_by_cloud_cover(_)
min_by_cloud_cover(its) ==
    IF Len(its) = 1 THEN its[1]
    ELSE LET best == min_by_cloud_cover(SubSeq(its, 1, Len(its) - 1))
             last == its[Len(its)]
         IN  IF last.cloud_cover < best.cloud_cover THEN last ELSE best

(* ------------------------------ persistence ---------------------------- *)

\* The insert's parameters with the index name written out as a literal.
insert_params_fixed_name(index_name, st, cloud_cover, now) ==
    [index_name |-> "NDVI", min_value |-> st.Min, max_value |-> st.Max,
     mean_value |-> st.Mean, std_dev |-> st.Std, cloud_cover |-> cloud_cover,
     calculation_date |-> now]

\* The parameter dict save_stats_to_db binds to the INSERT: the row it adds.
insert_params(index_name, st, cloud_cover, now) ==
    [index_name |-> index_name, min_value |-> st.Min, max_value |-> st.Max,
     mean_value |-> st.Mean, std_dev |-> st.Std, cloud_cover |-> cloud_cover,
     calculation_date |-> now]

(* ------------------------------- state --------------------------------- *)

VARIABLES
    pc,             \* where the script run stands
    index,          \* value of the index selectbox
    cmap,           \* value of the colormap selectbox
    button,         \* st.button's value in this run: TRUE in the run a press started
    shown,          \* widgets the current (or last) run has rendered
    clock,          \* datetime.now(), advanced once per script run
    remote,         \* the catalog's assets: digital numbers per (scene, band)
    rows,           \* table raster_stats
    rows0,          \* raster_stats as it was when the current run started
    items,          \* search.item_collection()
    selected_item,  \* the module-level selected_item
    loads,          \* the load_band calls of this run that returned
    index_data,     \* calc_index's return value
    stats,          \* the stats dict
    conn,           \* the connection of save_stats_to_db: none, open, closed
    pending,        \* rows inserted in the open transaction, not yet committed
    msgs,           \* st.success / st.error / st.pyplot output of this run
    error,          \* the uncaught exception that ended the run, or "none"
    log,            \* the stages this run has entered, in order
    successes       \* runs so far that reached st.success

vars == <<pc, index, cmap, button, shown, clock, remote, rows, rows0, items,
          selected_item, loads, index_data, stats, conn, pending, msgs, error,
          log, successes>>

Resting == pc \in {"idle", "done", "failed"}

Init ==
    /\ pc = "idle"
    /\ index = IndexNames[1]
    /\ cmap = CmapNames[1]
    /\ button = FALSE
    /\ shown = {}
    /\ clock = 0
    /\ remote = World
    /\ rows = <<>>
    /\ rows0 = <<>>
    /\ items = <<>>
    /\ selected_item = NoItem
    /\ loads = <<>>
    /\ index_data = None
    /\ stats = NoStats
    /\ conn = "none"
    /\ pending = <<>>
    /\ msgs = <<>>
    /\ error = "none"
    /\ log = <<>>
    /\ successes = 0

(* --------------------------- user interaction -------------------------- *)

\* Streamlit runs the script from its first line with the widget values given.
StartRun(i, c, b) ==
    /\ Resting
    /\ clock < MaxRuns
    /\ clock' = clock + 1
    /\ index' = i
    /\ cmap' = c
    /\ button' = b
    /\ shown' = {}
    /\ rows0' = rows
    /\ items' = <<>>
    /\ selected_item' = NoItem
    /\ loads' = <<>>
    /\ index_data' = None
    /\ stats' = NoStats
    /\ conn' = "none"
    /\ pending' = <<>>
    /\ msgs' = <<>>
    /\ error' = "none"
    /\ log' = <<>>
    /\ pc' = "catalog"
    /\ UNCHANGED <<remote, rows, successes>>

\* The page is opened, or rerun with no widget changed.
Rerun == StartRun(index, cmap, FALSE)

\* The options of the index selectbox, with one more the script has no branch for.
index_options_extra == IndexNames \o <<"EVI">>

\* The options of the index selectbox.
index_options == IndexNames

ChooseIndex ==
    /\ "index" \in shown
    /\ \E i \in Range(index_options) \ {index} : StartRun(i, cmap, FALSE)

ChooseCmap ==
    /\ "cmap" \in shown
    /\ \E c \in Range(CmapNames) \ {cmap} : StartRun(index, c, FALSE)

PressSave ==
    /\ "button" \in shown
    /\ StartRun(index, cmap, TRUE)

\* An uncaught exception ends the run.
Fatal(exc) ==
    /\ error' = exc
    /\ pc' = "failed"

(* ----------------------------- catalog query --------------------------- *)

\* Client.open, catalog.search, search.item_collection().
CatalogQuery ==
    /\ pc = "catalog"
    /\ log' = Append(log, "catalog")
    /\ \/ /\ Fatal("APIError")
          /\ UNCHANGED items
       \/ /\ \E s \in SearchResults : items' = [k \in 1..Len(s) |-> Item(s[k])]
          /\ pc' = "select"
          /\ UNCHANGED error
    /\ UNCHANGED <<index, cmap, button, shown, clock, remote, rows, rows0,
                   selected_item, loads, index_data, stats, conn, pending, msgs,
                   successes>>

\* min(items, key=..., default=None): an empty result selects None and the
\* script goes on.
SelectItem_default ==
    /\ pc = "select"
    /\ log' = Append(log, "select")
    /\ selected_item' = IF items = <<>> THEN NoItem ELSE min_by_cloud_cover(items)
    /\ pc' = "calc"
    /\ UNCHANGED <<index, cmap, button, shown, clock, remote, rows, rows0, items,
                   loads, index_data, stats, conn, pending, msgs, error, successes>>

\* selected_item = min(items, key=...); min of an empty sequence raises.
SelectItem ==
    /\ pc = "select"
    /\ log' = Append(log, "select")
    /\ IF items = <<>>
       THEN /\ Fatal("ValueError")
            /\ UNCHANGED selected_item
       ELSE /\ selected_item' = min_by_cloud_cover(items)
            /\ pc' = "calc"
            /\ UNCHANGED error
    /\ UNCHANGED <<index, cmap, button, shown, clock, remote, rows, rows0, items,
                   loads, index_data, stats, conn, pending, msgs, successes>>

(* --------------------------- index and statistics ---------------------- *)

\* load_band memoised (st.cache_data): after the first run the bands come from
\* the cache and nothing is fetched.
CalcIndex_cached ==
    /\ pc = "calc"
    /\ LET r == calc_index(index, selected_item, remote)
       IN  \E fetched \in 0..Len(r.loads) :
              IF clock = 1 /\ fetched < Len(r.loads)
              THEN /\ loads' = SubSeq(r.loads, 1, fetched)
                   /\ log' = log \o [k \in 1..(fetched + 1) |-> "load_band"]
                   /\ Fatal("RasterioIOError")
                   /\ shown' = shown \union {"index"}
                   /\ UNCHANGED index_data
              ELSE /\ loads' = r.loads
                   /\ log' = log \o (IF clock = 1
                                     THEN [k \in 1..Len(r.loads) |-> "load_band"]
                                     ELSE <<>>)
                                 \o <<"calc_index">>
                   /\ index_data' = r.value
                   /\ shown' = shown \union {"index", "cmap"}
                   /\ pc' = "stats"
                   /\ UNCHANGED error
    /\ UNCHANGED <<index, cmap, button, clock, remote, rows, rows0, items,
                   selected_item, stats, conn, pending, msgs, successes>>

\* st.title, the index selectbox, index_data = calc_index(index), the colormap
\* selectbox.  Each load_band call fetches its asset anew and may fail, which
\* ends the run before the next call.
CalcIndex ==
    /\ pc = "calc"
    /\ LET r == calc_index(index, selected_item, remote)
       IN  IF r.raised # "none"
           THEN /\ Fatal(r.raised)
                /\ shown' = shown \union {"index"}
                /\ UNCHANGED <<loads, index_data, log>>
           ELSE \E fetched \in 0..Len(r.loads) :
                   IF fetched < Len(r.loads)
                   THEN /\ loads' = SubSeq(r.loads, 1, fetched)
                        /\ log' = log \o [k \in 1..(fetched + 1) |-> "load_band"]
                        /\ Fatal("RasterioIOError")
                        /\ shown' = shown \union {"index"}
                        /\ UNCHANGED index_data
                   ELSE /\ loads' = r.loads
                        /\ log' = log \o [k \in 1..Len(r.loads) |-> "load_band"]
                                      \o <<"calc_index">>
                        /\ index_data' = r.value
                        /\ shown' = shown \union {"index", "cmap"}
                        /\ pc' = "stats"
                        /\ UNCHANGED error
    /\ UNCHANGED <<index, cmap, button, clock, remote, rows, rows0, items,
                   selected_item, stats, conn, pending, msgs, successes>>

\* clean_data, the stats dict and the expander showing it.  None has no
\* attribute where.
Stats ==
    /\ pc = "stats"
    /\ log' = Append(log, "stats")
    /\ IF index_data = None
       THEN /\ Fatal("AttributeError")
            /\ UNCHANGED stats
       ELSE /\ stats' = compute_stats(index_data)
            /\ pc' = "button"
            /\ UNCHANGED error
    /\ UNCHANGED <<index, cmap, button, shown, clock, remote, rows, rows0, items,
                   selected_item, loads, index_data, conn, pending, msgs,
                   successes>>

(* ------------------------------ persistence ---------------------------- *)

\* if st.button(...): the button is rendered; its body runs only in the run
\* its press started.
Button ==
    /\ pc = "button"
    /\ shown' = shown \union {"button"}
    /\ IF button
       THEN pc' = "connect"
       ELSE pc' = "blob"
    /\ UNCHANGED <<index, cmap, button, clock, remote, rows, rows0, items,
                   selected_item, loads, index_data, stats, conn, pending, msgs,
                   error, log, successes>>

\* A handler that calls save_stats_to_db again instead of reporting.
CaughtRetry(what) ==
    /\ msgs' = msgs
    /\ pc' = "connect"

\* except Exception as e: st.error(...); the script goes on after the try.
Caught(what) ==
    /\ msgs' = Append(msgs, [kind |-> "error", text |-> what])
    /\ pc' = "blob"

\* sqlalchemy.create_engine(get_connection_uri()) and engine.connect().
SaveConnect ==
    /\ pc = "connect"
    /\ log' = Append(log, "save")
    /\ \/ /\ conn' = "open"
          /\ pc' = "execute"
          /\ UNCHANGED msgs
       \/ /\ \E what \in {"create_engine", "connect"} : Caught(what)
          /\ UNCHANGED conn
    /\ UNCHANGED <<index, cmap, button, shown, clock, remote, rows, rows0, items,
                   selected_item, loads, index_data, stats, pending, error,
                   successes>>

\* conn.execute called twice with the same parameters.
SaveExecute_twice ==
    /\ pc = "execute"
    /\ \/ /\ pending' = pending \o
                <<insert_params(index, stats, selected_item.cloud_cover, clock),
                  insert_params(index, stats, selected_item.cloud_cover, clock)>>
          /\ pc' = "commit"
          /\ UNCHANGED <<conn, msgs>>
       \/ /\ conn' = "closed"
          /\ Caught("execute")
          /\ UNCHANGED pending
    /\ UNCHANGED <<index, cmap, button, shown, clock, remote, rows, rows0, items,
                   selected_item, loads, index_data, stats, error, log, successes>>

\* The connection opened without a with block: an error in execute leaves it open.
SaveExecute_leak ==
    /\ pc = "execute"
    /\ \/ /\ pending' = Append(pending,
                insert_params(index, stats, selected_item.cloud_cover, clock))
          /\ pc' = "commit"
          /\ UNCHANGED <<conn, msgs>>
       \/ /\ Caught("execute")
          /\ UNCHANGED <<conn, pending>>
    /\ UNCHANGED <<index, cmap, button, shown, clock, remote, rows, rows0, items,
                   selected_item, loads, index_data, stats, error, log, successes>>

\* conn.execute(INSERT ...): the row joins the open transaction.  On an error
\* the with block closes the connection, which rolls the transaction back.
SaveExecute ==
    /\ pc = "execute"
    /\ \/ /\ pending' = Append(pending,
                insert_params(index, stats, selected_item.cloud_cover, clock))
          /\ pc' = "commit"
          /\ UNCHANGED <<conn, msgs>>
       \/ /\ conn' = "closed"
          /\ Caught("execute")
          /\ UNCHANGED pending
    /\ UNCHANGED <<index, cmap, button, shown, clock, remote, rows, rows0, items,
                   selected_item, loads, index_data, stats, error, log, successes>>

\* conn.commit(), the end of the with block, st.success.  A failed commit leaves
\* the transaction to the rollback of the closing connection.
SaveCommit ==
    /\ pc = "commit"
    /\ conn' = "closed"
    /\ pending' = <<>>
    /\ \/ /\ rows' = rows \o pending
          /\ msgs' = Append(msgs, [kind |-> "success", text |-> "saved"])
          /\ successes' = successes + 1
          /\ pc' = "blob"
       \/ /\ Caught("commit")
          /\ UNCHANGED <<rows, successes>>
    /\ UNCHANGED <<index, cmap, button, shown, clock, remote, rows0, items,
                   selected_item, loads, index_data, stats, error, log>>

(* ----------------------------- visualization --------------------------- *)

\* blob_read(f"{index}_{cmap}.tif") and the figure.  download_blob of a key the
\* container does not hold raises.
BlobRead ==
    /\ pc = "blob"
    /\ log' = Append(log, "blob_read")
    /\ IF blob_name(index, cmap) \in Container
       THEN /\ msgs' = Append(msgs, [kind |-> "pyplot", text |-> blob_name(index, cmap)])
            /\ pc' = "done"
            /\ UNCHANGED error
       ELSE /\ Fatal("ResourceNotFoundError")
            /\ UNCHANGED msgs
    /\ UNCHANGED <<index, cmap, button, shown, clock, remote, rows, rows0, items,
                   selected_item, loads, index_data, stats, conn, pending,
                   successes>>

Next ==
    \/ Rerun
    \/ ChooseIndex
    \/ ChooseCmap
    \/ PressSave
    \/ CatalogQuery
    \/ SelectItem
    \/ CalcIndex
    \/ Stats
    \/ Button
    \/ SaveConnect
    \/ SaveExecute
    \/ SaveCommit
    \/ BlobRead

Spec == Init /\ [][Next]_vars

(* ------------------- index and statistics on any bands ------------------ *)

\* Every raster of digital numbers an asset on the given grid can hold.
Rasters(grid) == [1..GridSize(grid) -> 0..MaxDN]

\* The two bands calc_index loads for an index name.
BandsOf(index_name) ==
    LET r == calc_index(index_name, Item(1), World)
    IN  <<r.loads[1].band, r.loads[2].band>>

\* A run that has selected scene 1 and is about to compute an index, the two
\* bands of that index holding any digital numbers: the first run of a session
\* for the default index, the run a change of the selectbox started otherwise.
InitBands ==
    /\ pc = "calc"
    /\ \E i \in Range(IndexNames) :
          LET b == BandsOf(i)
              w == [key \in {1} \X BandNames |-> World[key]]
          IN  /\ index = i
              /\ \E d1 \in Rasters(GridOf(b[1])), d2 \in Rasters(GridOf(b[2])) :
                    remote = [w EXCEPT ![<<1, b[1]>>] = d1, ![<<1, b[2]>>] = d2]
    /\ cmap = CmapNames[1]
    /\ button = FALSE
    /\ shown = {}
    /\ clock = (IF index = IndexNames[1] THEN 1 ELSE 2)
    /\ rows = <<>>
    /\ rows0 = <<>>
    /\ items = <<Item(1)>>
    /\ selected_item = Item(1)
    /\ loads = <<>>
    /\ index_data = None
    /\ stats = NoStats
    /\ conn = "none"
    /\ pending = <<>>
    /\ msgs = <<>>
    /\ error = "none"
    /\ log = <<"catalog", "select">>
    /\ successes = 0

NextBands ==
    \/ CalcIndex
    \/ Stats

SpecBands == InitBands /\ [][NextBands]_vars

(* ------------------------------ properties ----------------------------- *)

Count(s, e) == Cardinality({k \in 1..Len(s) : s[k] = e})

IsPrefix(s, t) == Len(s) <= Len(t) /\ \A k \in 1..Len(s) : s[k] = t[k]

Shows(kind) == \E k \in 1..Len(msgs) : msgs[k].kind = kind

ShowsError(what) == \E k \in 1..Len(msgs) : msgs[k] = [kind |-> "error", text |-> what]

\* The rows the current run has added to raster_stats.
Added == SubSeq(rows, Len(rows0) + 1, Len(rows))

\* C1: once the selection step has run on a non-empty search result, the
\* selected item is one of the result's items, no item of the result has a
\* smaller eo:cloud_cover, and the run has selected exactly once.
C1_SelectsMinimumCloudCover ==
    (items # <<>> /\ "select" \in Range(log)) =>
        /\ selected_item \in Range(items)
        /\ \A k \in 1..Len(items) : selected_item.cloud_cover <= items[k].cloud_cover
        /\ Count(log, "select") = 1

\* The search returned cloud covers [5, 2, 9] and the item with 2 was selected.
C1_Witness ==
    /\ pc = "calc"
    /\ [k \in 1..Len(items) |-> items[k].cloud_cover] = <<5, 2, 9>>
    /\ selected_item.cloud_cover = 2

\* C2: when the selection step runs on an empty search result the run ends
\* there with the uncaught ValueError: no band was loaded, no statistics
\* computed, no insert attempted, no blob downloaded.
C2_EmptyResultIsFatal ==
    (items = <<>> /\ "select" \in Range(log)) =>
        /\ pc = "failed"
        /\ error = "ValueError"
        /\ log = <<"catalog", "select">>
        /\ selected_item = NoItem
        /\ loads = <<>>
        /\ index_data = None
        /\ stats = NoStats
        /\ conn = "none"
        /\ pending = <<>>
        /\ rows = rows0
        /\ msgs = <<>>

\* A run whose search returned nothing has ended in the selection step.
C2_Witness ==
    /\ pc = "failed"
    /\ error = "ValueError"
    /\ items = <<>>
    /\ "select" \in Range(log)

\* C3: a pressed save that has ended without st.success has shown exactly one
\* error message; and whenever an error message is shown, no row was added in
\* this run, nothing is left uncommitted or connected, and the run has gone on
\* to the visualization stage, where only the blob download can still end it;
\* and no run calls save_stats_to_db a second time.
C3_SaveFailureIsCaught ==
    /\ ("save" \in Range(log) /\ pc \in {"blob", "done", "failed"} /\ ~Shows("success"))
          => Shows("error")
    /\ Count(log, "save") <= 1
    /\ Shows("error") =>
          /\ button
          /\ Count([k \in 1..Len(msgs) |-> msgs[k].kind], "error") = 1
          /\ ~Shows("success")
          /\ rows = rows0
          /\ pending = <<>>
          /\ conn # "open"
          /\ pc \in {"blob", "done", "failed"}
          /\ pc = "failed" => error = "ResourceNotFoundError"
          /\ pc = "done" => Shows("pyplot")

\* A commit failed, its error was shown, and the run went on to render the image.
C3_Witness ==
    /\ pc = "done"
    /\ ShowsError("commit")
    /\ Shows("pyplot")
    /\ rows = rows0

\* C4: raster_stats only grows; a run adds one row if its button was pressed and
\* st.success was reached, and none otherwise; so the table holds as many rows
\* as there were runs with a successful save.
C4_OneRowPerSuccessfulSave ==
    /\ IsPrefix(rows0, rows)
    /\ Len(Added) = (IF button /\ Shows("success") THEN 1 ELSE 0)
    /\ Len(rows) = successes

\* Two runs have each saved one row.
C4_Witness ==
    /\ pc = "done"
    /\ button
    /\ Len(rows0) = 1
    /\ Len(rows) = 2

\* The sum of f over the index set S.
RECURSIVE SetSum(_, _)
SetSum(f, S) ==
    IF S = {} THEN FromInt(0)
    ELSE LET k == CHOOSE j \in S : TRUE IN FAdd(f[k], SetSum(f, S \ {k}))

\* C5: once both bands are loaded the index array exists without an error, and
\* every cell where the two bands sum to zero is NaN; the statistics, once
\* computed, are those of the cells that are not NaN: Min and Max are the least
\* and greatest such cell, Mean times their number is their sum, Std squared
\* times their number is the sum of their squared deviations from Mean; with
\* no such cell all four are NaN.
C5_ZeroSumIsNaNAndIgnored ==
    LET a == loads[1].raster.data
        b == loads[2].raster.data
        x == index_data.data
        V == {k \in 1..Len(x) : ~IsNaN(x[k])}
        n == FromInt(Cardinality(V))
        dev2 == [k \in 1..Len(x) |->
                    FMul(FSub(x[k], stats.Mean), FSub(x[k], stats.Mean))]
    IN  /\ Len(loads) = 2 =>
            /\ error = "none"
            /\ index_data # None
            /\ Len(x) = Len(a) /\ Len(x) = Len(b)
            /\ \A k \in 1..Len(x) :
                  FAdd(a[k], b[k]) = FromInt(0) => IsNaN(x[k])
        /\ pc = "button" =>
            IF V = {} THEN stats = NoStats
            ELSE /\ \E k \in V : stats.Min = x[k]
                 /\ \A k \in V : FLeq(stats.Min, x[k])
                 /\ \E k \in V : stats.Max = x[k]
                 /\ \A k \in V : FLeq(x[k], stats.Max)
                 /\ FMul(stats.Mean, n) = SetSum(x, V)
                 /\ FMul(stats.Std.sqrt, n) = SetSum(dev2, V)

\* The statistics of an array with a cell where both bands are zero, which is
\* NaN, beside a cell with a finite index value.
C5_Witness ==
    /\ pc = "button"
    /\ \E k \in 1..Len(index_data.data) :
          /\ loads[1].raster.data[k] = FromInt(0)
          /\ loads[2].raster.data[k] = FromInt(0)
          /\ IsNaN(index_data.data[k])
    /\ \E k \in 1..Len(index_data.data) : ~IsNaN(index_data.data[k])
    /\ ~IsNaN(stats.Min)
    /\ ~IsNaN(stats.Std.sqrt)

SwirMatched == {"NDII", "NDBI"}

\* C6 as stated: an index computation loads two bands, but three for NDII and
\* NDBI.
C6_ThreeLoadsForSwir ==
    "calc_index" \in Range(log) =>
        /\ Len(loads) = (IF index \in SwirMatched THEN 3 ELSE 2)
        /\ Count(log, "load_band") = Len(loads)

\* C6, amended: every index computation makes exactly two load_band calls, each
\* a fetch made in this run; for NDII and NDBI the first is B11 loaded as is and
\* the second is B08 reprojected onto the first one's grid, and for NDVI and
\* NDWI neither is reprojected.
C6_TwoLoadsSecondMatched ==
    "calc_index" \in Range(log) =>
        /\ Len(loads) = 2
        /\ Count(log, "load_band") = 2
        /\ ~loads[1].matched
        /\ loads[2].band = "B08"
        /\ loads[2].raster.grid = loads[1].raster.grid
        /\ Len(loads[2].raster.data) = Len(loads[1].raster.data)
        /\ index_data.grid = loads[1].raster.grid
        /\ IF index \in SwirMatched
           THEN /\ loads[1].band = "B11"
                /\ loads[2].matched
                /\ loads[1].raster.grid = GridOf("B11")
           ELSE /\ ~loads[2].matched
                /\ loads[1].raster.grid = GridOf("B08")

\* NDII has been computed from B11 and B08 resampled onto B11's coarser grid.
C6_Witness ==
    /\ pc = "stats"
    /\ index = "NDII"
    /\ Len(loads) = 2
    /\ loads[2].matched
    /\ loads[2].raster.grid = "coarse"
    /\ GridOf(loads[2].band) = "fine"

\* C7: a connection is open only between connect and the end of the with
\* block; an uncommitted insert exists only on an open connection; once
\* save_stats_to_db has returned or raised the connection is closed if it was
\* ever opened; a run that never called save_stats_to_db has no connection.
C7_ConnectionScopedToInsert ==
    /\ conn = "open" => pc \in {"execute", "commit"}
    /\ pending # <<>> => conn = "open"
    /\ "save" \notin Range(log) => conn = "none"
    /\ (Shows("success") \/ ShowsError("execute") \/ ShowsError("commit"))
          => conn = "closed"
    /\ ("save" \in Range(log) /\ pc \in {"blob", "done", "failed"}) =>
          \/ conn = "closed"
          \/ conn = "none" /\ (ShowsError("create_engine") \/ ShowsError("connect"))

\* execute failed inside the with block and the connection is closed when the
\* handler has run.
C7_Witness ==
    /\ pc = "blob"
    /\ ShowsError("execute")
    /\ conn = "closed"

\* The stages of a run, in the order the script has them.
Pipeline(pressed) ==
    <<"catalog", "select", "load_band", "load_band", "calc_index", "stats">>
        \o (IF pressed THEN <<"save">> ELSE <<>>) \o <<"blob_read">>

\* C8: a run starts at the catalog query with nothing kept from the run
\* before; the stages a run has entered are always an initial part of catalog,
\* select, load_band, load_band, calc_index, stats, save (if the button was
\* pressed), blob_read; a run that computes an index has fetched both bands in
\* that run; a run that ends normally has gone through all of them.
C8_WholePipelineEveryRun ==
    /\ IsPrefix(log, Pipeline(button))
    /\ pc = "catalog" =>
          /\ log = <<>>
          /\ items = <<>> /\ selected_item = NoItem /\ loads = <<>>
          /\ index_data = None /\ stats = NoStats
    /\ pc = "idle" <=> clock = 0
    /\ "calc_index" \in Range(log) => Count(log, "load_band") = 2 /\ Len(loads) = 2
    /\ Len(loads) <= Count(log, "load_band")
    /\ Count(log, "load_band") > 0 => Count(log, "catalog") = 1 /\ selected_item # NoItem
    /\ pc = "done" => log = Pipeline(button)
    /\ pc = "failed" => log # <<>> /\ error # "none"

\* A run started by the save button, so with the index of the run before, has
\* fetched both bands again and gone through every stage.
C8_Witness ==
    /\ clock >= 2
    /\ button
    /\ pc = "done"
    /\ Count(log, "load_band") = 2
    /\ log = Pipeline(TRUE)

UnknownNames == {"EVI", "ndvi", ""}

\* C9: calc_index on a name it has no branch for loads nothing, raises nothing
\* and returns None; and in no run is it called so: the selectbox value is
\* always one of the four names, a computed index array is never None, and no
\* run ends on None having no attribute where.
C9_UnknownIndexUnreachable ==
    /\ \A name \in UnknownNames, id \in 1..MaxItems :
          calc_index(name, Item(id), remote)
              = [loads |-> <<>>, value |-> None, raised |-> "none"]
    /\ index \in Range(IndexNames)
    /\ "calc_index" \in Range(log) => index_data # None
    /\ error # "AttributeError"

\* calc_index has been called with the last of the four names and returned an
\* array.
C9_Witness ==
    /\ pc = "stats"
    /\ index = "NDWI"
    /\ index_data # None
    /\ Len(loads) = 2

\* C10: the rows a run adds carry that run's index name, statistics, cloud
\* cover of the selected item and time; the blob download starts only after
\* save_stats_to_db is over; and a download of a key the container lacks ends
\* the run with the not-found error, a row committed before it staying in the
\* table.
C10_SaveBeforeBlobAndRowOfThisRun ==
    /\ \A k \in 1..Len(Added) :
          /\ Added[k].index_name = index
          /\ Added[k].min_value = stats.Min
          /\ Added[k].max_value = stats.Max
          /\ Added[k].mean_value = stats.Mean
          /\ Added[k].std_dev = stats.Std
          /\ Added[k].cloud_cover = selected_item.cloud_cover
          /\ Added[k].calculation_date = clock
          /\ selected_item = min_by_cloud_cover(items)
          /\ stats = compute_stats(index_data)
    /\ "blob_read" \in Range(log) =>
          /\ conn # "open" /\ pending = <<>>
          /\ button => (Shows("success") \/ Shows("error"))
          /\ Shows("success") => Len(Added) = 1
    /\ pc \in {"connect", "execute", "commit"} => "blob_read" \notin Range(log)
    /\ ("blob_read" \in Range(log) /\ cmap = CmapNames[Len(CmapNames)]) =>
          /\ pc = "failed"
          /\ error = "ResourceNotFoundError"
          /\ ~Shows("pyplot")

\* The insert committed, then the download of a missing key ended the run; the
\* row is in the table.
C10_Witness ==
    /\ pc = "failed"
    /\ error = "ResourceNotFoundError"
    /\ button
    /\ Shows("success")
    /\ Len(rows) = Len(rows0) + 1
    /\ rows[Len(rows)].index_name = index

=============================================================================
